---- MODULE Spec2Model ----
(***************************************************************************)
(* Model of getPids (src/getPids_html.py): the MyHTMLParser schedule       *)
(* extractor, a step-counter state machine driven by the tokenizer's       *)
(* tag-open / text / tag-close callbacks, and the newDate call the main    *)
(* loop makes before feeding each page.  Spec feeds one extractor the      *)
(* pages of the queue; SpecTwice feeds one page twice; SpecMarkup,         *)
(* SpecRepeat, SpecSubtitle and SpecDates feed it the token sets of one    *)
(* concern each and keep a record of what was printed, seen and dropped;   *)
(* SpecFormat applies printProgramme to the records a block can hold;      *)
(* SpecLoop is the main loop, from mkDates to exit.                        *)
(*                                                                         *)
(* Python strings are modelled as sequences of one-character strings, so   *)
(* that slicing, substitution, stripping and concatenation are computed    *)
(* as the code computes them.  '' is <<>>.                                 *)
(***************************************************************************)
EXTENDS Integers, Sequences, FiniteSets, TLC

\* ------------------------------------------------------------------------
\* Bounds of the model
\* ------------------------------------------------------------------------
MaxBlocks == 2
MaxSubtitleLen == 8
MaxDocLen == 3
MaxJoinLen == 19       \* length of the longest subtitle joined from fragments
Extra == 1             \* days before today the main loop asks for

\* ------------------------------------------------------------------------
\* String literals of the source
\* ------------------------------------------------------------------------
TimezoneTime == <<"t", "i", "m", "e", "z", "o", "n", "e", "-", "-", "t", "i", "m", "e">>
ProgrammeTitle == <<"p", "r", "o", "g", "r", "a", "m", "m", "e", "_", "_", "t", "i", "t", "l", "e", " ">>
Name == <<"n", "a", "m", "e">>
ProgrammeSubtitle == <<"p", "r", "o", "g", "r", "a", "m", "m", "e", "_", "_", "s", "u", "b", "t", "i", "t", "l", "e", " ", "c", "e", "n", "t", "i">>
Repeat == <<"R", "e", "p", "e", "a", "t">>
\* variant that stores no marker
RepeatMarkNone == <<>>
RepeatMark == <<"(", "R", ")">>
StripChars == {" ", "\t", "\n", "\r"}
DateLen == 10

\* ------------------------------------------------------------------------
\* Inputs: the dates the main loop asks for, and the markup the pages carry
\* ------------------------------------------------------------------------
\* date = year + '/' + month + '/' + day
MkDate(year, month, day) == year \o <<"/">> \o month \o <<"/">> \o day

DateA == MkDate(<<"2", "0", "1", "7">>, <<"0", "4">>, <<"0", "5">>)
DateB == MkDate(<<"2", "0", "1", "7">>, <<"0", "4">>, <<"0", "6">>)
\* the queue mkDates builds, oldest first
DateQueue == <<DateA, DateB>>
Dates == {DateQueue[i] : i \in 1..Len(DateQueue)}

StrContentA == <<"2", "0", "1", "7", "-", "0", "4", "-", "0", "5", "T", "0", "6", ":", "0", "0">>
StrContentB == <<"2", "0", "1", "7", "-", "0", "4", "-", "0", "6", "T", "0", "0", ":", "3", "5">>
PidA == <<"b", "0", "8", "l">>
PidB == <<"b", "0", "8", "m">>
Junk == <<"b", "o", "x">>
\* the value None the tokenizer gives an attribute written without a value;
\* it is no string, so it equals no sequence of characters
NoValue == <<"None">>
TextTime == <<"0", "6", ":", "0", "0">>
TextPartOne == <<"P", "a", "r", "t", " ", "O", "n", "e", ",">>
TextEpisode2 == <<"E", "p", "i", "s", "o", "d", "e", " ", "2">>
TextFoo == <<"F", "o", "o">>
TextBar == <<"\n", " ", "B", "a", "r", "\t">>
TextNews == <<"N", "e", "w", "s">>
TextPart == <<" ", "P", "t", ",", "\n">>

Attrs ==
  { <<"content", StrContentA>>, <<"content", StrContentB>>,
    <<"class", TimezoneTime>>,
    <<"data-pid", PidA>>, <<"data-pid", PidB>>,
    <<"class", ProgrammeTitle>>, <<"property", Name>>,
    <<"class", ProgrammeSubtitle>>, <<"class", Repeat>>,
    <<"class", Junk>> }
\* tags with two attributes: the pairs of the template that advance the
\* position twice in one tag, one of them in the other order, and noise
AttrPairs ==
  { <<<<"content", StrContentA>>, <<"class", TimezoneTime>>>>,
    <<<<"class", TimezoneTime>>, <<"content", StrContentB>>>>,
    <<<<"data-pid", PidA>>, <<"class", ProgrammeTitle>>>>,
    <<<<"class", ProgrammeTitle>>, <<"property", Name>>>>,
    <<<<"class", ProgrammeSubtitle>>, <<"property", Name>>>>,
    <<<<"class", Junk>>, <<"class", Repeat>>>> }
AttrLists == {<<>>} \cup {<<a>> : a \in Attrs} \cup AttrPairs
StartTags == {"h3", "div"}
EndTags == {"h4", "html", "div"}
Texts == {TextNews, TextPart}

\* ------------------------------------------------------------------------
\* State
\* ------------------------------------------------------------------------
VARIABLES
  date, time, pid, title, subtitle, repeat,   \* fields of the record in progress
  step,                                       \* position in the block grammar
  expected,                                   \* date the page's records must carry
  hadPid,                                     \* keys of the hadPid dictionary
  out,                                        \* the records printed so far, in order
  blockNo,                                    \* history: h3 tags handled so far
  fresh,                                      \* history: the fields were reset by an h3 of this page
  flushedAt,                                  \* history: position at the first root close since the fields were reset, -1 if none
  docK,                                       \* history: blocks of this page whose date is the expected one
  doc, pos, pass,                             \* a page fed twice: its events, events fed, feed number
  raised,                                     \* a handler raised an exception, which ends the run
  line,                                       \* watch: the line printProgramme printed last
  repSeen, rep11,                             \* watch: a 'Repeat' value came in an open tag of this block; at position 11
  dropped,                                    \* watch: id and page of the blocks dropped for their date alone
  frags,                                      \* watch: the texts received at position 10 in this block
  dates, pc, code, errs, taken                \* main loop: queue, place, exit status, messages, dates fetched

fields == <<date, time, pid, title, subtitle, repeat>>
parser == <<date, time, pid, title, subtitle, repeat, step, expected, hadPid>>
history == <<blockNo, fresh, flushedAt, docK>>
twice == <<doc, pos, pass>>
watch == <<line, repSeen, rep11, dropped, frags>>
loop == <<dates, pc, code, errs, taken>>
vars == <<date, time, pid, title, subtitle, repeat, step, expected, hadPid, out,
          blockNo, fresh, flushedAt, docK, doc, pos, pass,
          raised, line, repSeen, rep11, dropped, frags, dates, pc, code, errs, taken>>

\* ------------------------------------------------------------------------
\* Pure helpers
\* ------------------------------------------------------------------------
Min(a, b) == IF a < b THEN a ELSE b

\* value[0:10]
Slice10(value) == SubSeq(value, 1, Min(DateLen, Len(value)))

\* re.sub( '-', '/', s)
SubDash(s) == [i \in 1..Len(s) |-> IF s[i] = "-" THEN "/" ELSE s[i]]

RECURSIVE LStrip(_)
LStrip(s) == IF s # <<>> /\ Head(s) \in StripChars THEN LStrip(Tail(s)) ELSE s

RECURSIVE RStrip(_)
RStrip(s) == IF s # <<>> /\ s[Len(s)] \in StripChars
             THEN RStrip(SubSeq(s, 1, Len(s) - 1)) ELSE s

\* data.strip( ' \t\n\r')
Strip(s) == RStrip(LStrip(s))

\* variant that adds no space after a comma
SubtitlePieceNoSpace(data) == Strip(data)

\* the text handle_data appends to the subtitle
SubtitlePiece(data) ==
  LET d == Strip(data)
  IN  IF d # <<>> /\ d[Len(d)] = "," THEN d \o <<" ">> ELSE d

\* ------------------------------------------------------------------------
\* printProgramme
\* ------------------------------------------------------------------------
\* variants of the condition that forget one of its two tests
ShouldPrintNoDedup(d, e, p, had) == d = e
ShouldPrintNoDate(d, e, p, had) == p \notin had

\* if self.date == self.expected and self.pid not in self.hadPid
ShouldPrint(d, e, p, had) == d = e /\ p \notin had

\* variant that never prints the repeat marker
QuotedNoRepeat(t, s, r) ==
  IF s = <<>> THEN <<"\"">> \o t \o <<"\"">>
  ELSE <<"\"">> \o t \o <<" ", "-", " ">> \o s \o <<"\"">>

Quoted(t, s, r) ==
  IF s \o r = <<>> THEN <<"\"">> \o t \o <<"\"">>
  ELSE IF r = <<>> THEN <<"\"">> \o t \o <<" ", "-", " ">> \o s \o <<"\"">>
  ELSE IF s = <<>> THEN <<"\"">> \o t \o <<"\"", " ">> \o r
  ELSE <<"\"">> \o t \o <<" ", "-", " ">> \o s \o <<"\"", " ">> \o r

Line(d, tm, p, t, s, r) == d \o <<"-">> \o tm \o <<" ">> \o p \o <<" ">> \o Quoted(t, s, r)

\* what printProgramme prints now, were its condition to hold: the line is
\* Line(date, time, pid, title, subtitle, repeat); out keeps the record's id
\* and date, the date
\* of the page being fed and the block it came from
Printed ==
  [ pid |-> pid, date |-> date, page |-> expected, block |-> blockNo, fresh |-> fresh ]

OutAfterPrint ==
  IF ShouldPrint(date, expected, pid, hadPid) THEN Append(out, Printed) ELSE out

\* variant that forgets to record the id
HadPidNotKept == hadPid

\* variant that records the id of every flushed block
HadPidOfEveryFlush == hadPid \cup {pid}

\* self.hadPid [self.pid] = True
HadPidAfterPrint ==
  IF ShouldPrint(date, expected, pid, hadPid) THEN hadPid \cup {pid} ELSE hadPid

\* ------------------------------------------------------------------------
\* handle_starttag
\* ------------------------------------------------------------------------
\* one pass of the body of the loop over attrs; s holds date, pid, repeat, step
\* and err, set when value[0:10] raises TypeError, which ends the loop
AttrStep(s, attr, value) ==
  IF s.err THEN s
  ELSE IF s.step = 1 /\ attr = "content"
    THEN IF value = NoValue THEN [s EXCEPT !.err = TRUE]
         ELSE [s EXCEPT !.date = SubDash(Slice10(value)), !.step = 2]
  ELSE IF s.step = 2 /\ value = TimezoneTime THEN [s EXCEPT !.step = 3]
  ELSE IF s.step = 4 /\ attr = "data-pid" THEN [s EXCEPT !.pid = value, !.step = 5]
  ELSE IF s.step = 5 /\ value = ProgrammeTitle THEN [s EXCEPT !.step = 6]
  ELSE IF s.step = 6 /\ value = Name THEN [s EXCEPT !.step = 7]
  ELSE IF s.step = 8 /\ value = ProgrammeSubtitle THEN [s EXCEPT !.step = 9]
  ELSE IF s.step = 9 /\ value = Name THEN [s EXCEPT !.step = 10]
  ELSE IF s.step = 11 /\ value = Repeat THEN [s EXCEPT !.repeat = RepeatMark, !.step = 12]
  ELSE s

RECURSIVE AttrLoop(_, _)
AttrLoop(s, attrs) ==
  IF attrs = <<>> THEN s
  ELSE AttrLoop(AttrStep(s, Head(attrs)[1], Head(attrs)[2]), Tail(attrs))

\* variant that flushes at every h3, the idle position included
FlushOnH3Always(tag, st) == tag = "h3"

\* does the h3 branch call printProgramme?
FlushOnH3(tag, st) == tag = "h3" /\ st # 0

\* what the loop over attrs starts from: after the h3 branch, if it is taken
BeforeLoop(tag) ==
  IF tag = "h3" THEN [date |-> <<>>, pid |-> <<>>, repeat |-> <<>>, step |-> 1, err |-> FALSE]
  ELSE [date |-> date, pid |-> pid, repeat |-> repeat, step |-> step, err |-> FALSE]

handle_starttag(tag, attrs) ==
  LET isH3 == tag = "h3"
      pre  == BeforeLoop(tag)
      post == AttrLoop(pre, attrs)
  IN  /\ out' = IF FlushOnH3(tag, step) THEN OutAfterPrint ELSE out
      /\ hadPid' = IF FlushOnH3(tag, step) THEN HadPidAfterPrint ELSE hadPid
      /\ date' = post.date
      /\ pid' = post.pid
      /\ repeat' = post.repeat
      /\ step' = post.step
      /\ time' = IF isH3 THEN <<>> ELSE time
      /\ title' = IF isH3 THEN <<>> ELSE title
      /\ subtitle' = IF isH3 THEN <<>> ELSE subtitle
      /\ blockNo' = IF isH3 THEN blockNo + 1 ELSE blockNo
      /\ fresh' = IF isH3 THEN TRUE ELSE fresh
      /\ flushedAt' = IF isH3 THEN -1 ELSE flushedAt
      /\ docK' = IF pre.step = 1 /\ post.step # 1 /\ post.date = expected
                 THEN docK + 1 ELSE docK
      /\ raised' = post.err
      /\ UNCHANGED expected

\* ------------------------------------------------------------------------
\* handle_data
\* ------------------------------------------------------------------------
handle_data(data) ==
  /\ IF step = 3 THEN
       /\ time' = data
       /\ step' = 4
       /\ UNCHANGED <<title, subtitle>>
     ELSE IF step = 7 THEN
       /\ title' = data
       /\ step' = 8
       /\ UNCHANGED <<time, subtitle>>
     ELSE IF step = 10 THEN
       /\ subtitle' = subtitle \o SubtitlePiece(data)
       /\ UNCHANGED <<time, title, step>>
     ELSE UNCHANGED <<time, title, subtitle, step>>
  /\ UNCHANGED <<date, pid, repeat, expected, hadPid, out,
                 blockNo, fresh, flushedAt, docK, raised>>

\* ------------------------------------------------------------------------
\* handle_endtag
\* ------------------------------------------------------------------------
\* the position an end tag leaves
StepAfterEnd(tag, st) == IF tag = "h4" THEN 11 ELSE IF tag = "html" THEN 0 ELSE st

\* variant that forgets the final flush
FlushOnEndNever(tag) == FALSE

\* does the end tag call printProgramme?
FlushOnEnd(tag) == tag = "html"

handle_endtag(tag) ==
  /\ step' = StepAfterEnd(tag, step)
  /\ out' = IF FlushOnEnd(tag) THEN OutAfterPrint ELSE out
  /\ hadPid' = IF FlushOnEnd(tag) THEN HadPidAfterPrint ELSE hadPid
  /\ flushedAt' = IF FlushOnEnd(tag) /\ flushedAt = -1 THEN step ELSE flushedAt
  /\ UNCHANGED <<date, time, pid, title, subtitle, repeat, expected,
                 blockNo, fresh, docK, raised>>

\* ------------------------------------------------------------------------
\* newDate
\* ------------------------------------------------------------------------
StepAfterNewDate(st) == 0

newDate(d) ==
  /\ expected' = d
  /\ step' = StepAfterNewDate(step)
  /\ fresh' = FALSE
  /\ docK' = 0
  /\ UNCHANGED <<date, time, pid, title, subtitle, repeat, hadPid, out,
                 blockNo, flushedAt, raised>>

\* ------------------------------------------------------------------------
\* Specification: one extractor, fed the pages of the main loop
\* ------------------------------------------------------------------------
InitParser ==
  /\ date = <<>> /\ time = <<>> /\ pid = <<>> /\ title = <<>>
  /\ subtitle = <<>> /\ repeat = <<>>
  /\ step = 0
  /\ expected = <<>>
  /\ hadPid = {}
  /\ out = <<>>
  /\ blockNo = 0 /\ fresh = FALSE /\ flushedAt = -1 /\ docK = 0
  /\ raised = FALSE

\* the variables a specification does not use keep these values
InitTwiceOff == doc = <<>> /\ pos = 0 /\ pass = 0
InitWatchOff ==
  /\ line = <<>> /\ repSeen = FALSE /\ rep11 = FALSE /\ dropped = {} /\ frags = <<>>
InitLoopOff ==
  /\ dates = <<>> /\ pc = "feeding" /\ code = -1 /\ errs = <<>> /\ taken = <<>>

Init == InitParser /\ InitTwiceOff /\ InitWatchOff /\ InitLoopOff

\* place of a date in the queue, 0 before the first page
QueuePos(d) == IF d = <<>> THEN 0 ELSE CHOOSE i \in 1..Len(DateQueue) : DateQueue[i] = d

\* parser.newDate( date): the loop takes the dates oldest first and skips
\* the dates whose page it could not get
BeginPage ==
  \E i \in 1..Len(DateQueue) :
    /\ i > QueuePos(expected)
    /\ newDate(DateQueue[i])
    /\ UNCHANGED <<twice, watch, loop>>

\* parser.feed( page.content): the tokenizer's callbacks, after newDate
StartTag ==
  \E tag \in StartTags, attrs \in AttrLists :
    /\ expected # <<>>
    /\ tag = "h3" => blockNo < MaxBlocks
    /\ handle_starttag(tag, attrs)
    /\ UNCHANGED <<twice, watch, loop>>

Data ==
  \E data \in Texts :
    /\ expected # <<>>
    /\ step = 10 => Len(subtitle) + Len(SubtitlePiece(data)) <= MaxSubtitleLen
    /\ handle_data(data)
    /\ UNCHANGED <<twice, watch, loop>>

EndTag ==
  \E tag \in EndTags :
    /\ expected # <<>>
    /\ handle_endtag(tag)
    /\ UNCHANGED <<twice, watch, loop>>

Next == BeginPage \/ StartTag \/ Data \/ EndTag

Spec == Init /\ [][Next]_vars

\* ------------------------------------------------------------------------
\* Specification: one page fed twice to one extractor, each time after
\* newDate with the same date
\* ------------------------------------------------------------------------
PageEvents ==
  { <<"start", "h3", <<>>>>,
    <<"start", "h3", <<<<"content", StrContentA>>>>>>,
    <<"start", "div", <<<<"content", StrContentA>>>>>>,
    <<"start", "div", <<<<"class", TimezoneTime>>>>>>,
    <<"start", "div", <<<<"data-pid", PidA>>>>>>,
    <<"data", "", TextNews>>,
    <<"end", "h4", <<>>>>,
    <<"end", "html", <<>>>> }

RECURSIVE Pages(_)
Pages(n) ==
  IF n = 0 THEN {<<>>}
  ELSE Pages(n - 1) \cup {Append(p, e) : p \in {q \in Pages(n - 1) : Len(q) = n - 1}, e \in PageEvents}

Feed(e) ==
  IF e[1] = "start" THEN handle_starttag(e[2], e[3])
  ELSE IF e[1] = "data" THEN handle_data(e[3])
  ELSE handle_endtag(e[2])

InitTwice ==
  /\ InitParser /\ InitWatchOff /\ InitLoopOff
  /\ doc \in Pages(MaxDocLen) /\ pos = 0 /\ pass = 0

\* newDate before the first feed, and again, with the same date, before the second
TwiceBegin ==
  /\ pass < 2
  /\ pass = 1 => pos = Len(doc)
  /\ newDate(DateA)
  /\ pass' = pass + 1
  /\ pos' = 0
  /\ doc' = doc
  /\ UNCHANGED <<watch, loop>>

TwiceFeed ==
  /\ pass > 0
  /\ pos < Len(doc)
  /\ Feed(doc[pos + 1])
  /\ pos' = pos + 1
  /\ UNCHANGED <<doc, pass, watch, loop>>

NextTwice == TwiceBegin \/ TwiceFeed

SpecTwice == InitTwice /\ [][NextTwice]_vars

\* ------------------------------------------------------------------------
\* Watched runs: the callbacks over the token sets of one specification,
\* with a record of what was printed, seen and dropped
\* ------------------------------------------------------------------------
\* the position at which the i-th attribute of a tag is examined
StepAtAttr(tag, attrs, i) == AttrLoop(BeforeLoop(tag), SubSeq(attrs, 1, i - 1)).step

\* printProgramme, called now, drops the block for its date alone
DropsForDate == date # expected /\ pid \notin hadPid

WatchFlush(flush) ==
  /\ line' = IF flush /\ ShouldPrint(date, expected, pid, hadPid)
             THEN Line(date, time, pid, title, subtitle, repeat) ELSE line
  /\ dropped' = IF flush /\ DropsForDate THEN dropped \cup {[pid |-> pid, page |-> expected]}
                ELSE dropped

WatchStart(tag, attrs) ==
  /\ WatchFlush(FlushOnH3(tag, step))
  /\ repSeen' = \/ tag # "h3" /\ repSeen
                \/ \E i \in 1..Len(attrs) : attrs[i][2] = Repeat
  /\ rep11' = \/ tag # "h3" /\ rep11
              \/ \E i \in 1..Len(attrs) :
                    attrs[i][2] = Repeat /\ StepAtAttr(tag, attrs, i) = 11
  /\ frags' = IF tag = "h3" THEN <<>> ELSE frags

WatchData(data) ==
  /\ frags' = IF step = 10 THEN Append(frags, data) ELSE frags
  /\ UNCHANGED <<line, repSeen, rep11, dropped>>

WatchEnd(tag) ==
  /\ WatchFlush(FlushOnEnd(tag))
  /\ UNCHANGED <<repSeen, rep11, frags>>

\* the tokenizer's callbacks while a page is being fed and no handler raised
Feeding == expected # <<>> /\ pc = "feeding" /\ ~raised

StartTagOf(tags, lists) ==
  \E tag \in tags, attrs \in lists :
    /\ Feeding
    /\ tag = "h3" => blockNo < MaxBlocks
    /\ handle_starttag(tag, attrs)
    /\ WatchStart(tag, attrs)
    /\ UNCHANGED <<twice, loop>>

DataOf(texts, maxLen) ==
  \E data \in texts :
    /\ Feeding
    /\ step = 10 => Len(subtitle) + Len(SubtitlePiece(data)) <= maxLen
    /\ handle_data(data)
    /\ WatchData(data)
    /\ UNCHANGED <<twice, loop>>

EndTagOf(tags) ==
  \E tag \in tags :
    /\ Feeding
    /\ handle_endtag(tag)
    /\ WatchEnd(tag)
    /\ UNCHANGED <<twice, loop>>

\* parser.newDate( date) for the dates of the queue, oldest first
BeginPageOf(queue) ==
  \E i \in 1..Len(queue) :
    /\ ~raised
    /\ \A j \in i..Len(queue) : queue[j] # expected
    /\ expected # <<>> => \E j \in 1..(i - 1) : queue[j] = expected
    /\ newDate(queue[i])
    /\ UNCHANGED <<twice, watch, loop>>

\* ------------------------------------------------------------------------
\* Specification: markup with attributes that carry no value
\* ------------------------------------------------------------------------
MarkupAttrs ==
  { <<"content", NoValue>>, <<"class", NoValue>>, <<"data-pid", NoValue>>,
    <<"content", StrContentA>>, <<"class", TimezoneTime>>,
    <<"data-pid", PidA>>, <<"class", Junk>> }
MarkupLists ==
  {<<>>} \cup {<<a>> : a \in MarkupAttrs}
    \cup { <<<<"class", Junk>>, <<"content", NoValue>>>>,
           <<<<"content", NoValue>>, <<"class", TimezoneTime>>>> }

MarkupBegin == BeginPageOf(<<DateA>>)
MarkupStartTag == StartTagOf(StartTags, MarkupLists)
MarkupData == DataOf({TextNews}, MaxSubtitleLen)
MarkupEndTag == EndTagOf(EndTags)

NextMarkup == MarkupBegin \/ MarkupStartTag \/ MarkupData \/ MarkupEndTag

SpecMarkup == Init /\ [][NextMarkup]_vars

\* ------------------------------------------------------------------------
\* Specification: one page with 'Repeat' values at any place of a block
\* ------------------------------------------------------------------------
RepeatLists ==
  { <<>>,
    <<<<"content", StrContentA>>>>,
    <<<<"class", TimezoneTime>>>>,
    <<<<"class", Repeat>>>>,
    <<<<"class", Junk>>, <<"class", Repeat>>>> }

RepeatBegin == BeginPageOf(<<DateA>>)
RepeatStartTag == StartTagOf(StartTags, RepeatLists)
RepeatData == DataOf({TextNews}, MaxSubtitleLen)
RepeatEndTag == EndTagOf({"h4", "html"})

NextRepeat == RepeatBegin \/ RepeatStartTag \/ RepeatData \/ RepeatEndTag

SpecRepeat == Init /\ [][NextRepeat]_vars

\* ------------------------------------------------------------------------
\* Specification: printProgramme at the root close, over the records a block
\* can hold when its page ends
\* ------------------------------------------------------------------------
\* a subtitle is stored only after a title
FormatRecords ==
  { r \in [ date : Dates, time : {TextTime, TextNews}, pid : {PidA, PidB},
            title : {<<>>, TextNews},
            subtitle : {<<>>, SubtitlePiece(TextPart), SubtitlePiece(TextPart) \o TextNews},
            repeat : {<<>>, RepeatMark} ] :
      r.subtitle # <<>> => r.title # <<>> }

InitFormat ==
  /\ \E r \in FormatRecords :
       /\ date = r.date /\ time = r.time /\ pid = r.pid
       /\ title = r.title /\ subtitle = r.subtitle /\ repeat = r.repeat
  /\ step = IF repeat = <<>> THEN 11 ELSE 12
  /\ expected \in Dates
  /\ hadPid = {} /\ out = <<>>
  /\ blockNo = 1 /\ fresh = TRUE /\ flushedAt = -1
  /\ docK = IF date = expected THEN 1 ELSE 0
  /\ raised = FALSE
  /\ InitTwiceOff /\ InitWatchOff /\ InitLoopOff

FormatClose == EndTagOf({"html"})

NextFormat == FormatClose

SpecFormat == InitFormat /\ [][NextFormat]_vars

\* ------------------------------------------------------------------------
\* Specification: one block, from its h3 on, with subtitles in fragments
\* ------------------------------------------------------------------------
SubtitleLists ==
  { <<>>,
    <<<<"content", StrContentA>>, <<"class", TimezoneTime>>>>,
    <<<<"data-pid", PidA>>, <<"class", ProgrammeTitle>>>>,
    <<<<"property", Name>>>>,
    <<<<"class", ProgrammeSubtitle>>, <<"property", Name>>>> }
SubtitleTexts == {TextPartOne, TextEpisode2, TextFoo, TextBar, TextPart}

\* after newDate( '2017/04/05') and the h3 of the page's first block
InitSubtitle ==
  /\ date = <<>> /\ time = <<>> /\ pid = <<>> /\ title = <<>>
  /\ subtitle = <<>> /\ repeat = <<>>
  /\ step = 1
  /\ expected = DateA
  /\ hadPid = {} /\ out = <<>>
  /\ blockNo = 1 /\ fresh = TRUE /\ flushedAt = -1 /\ docK = 0
  /\ raised = FALSE
  /\ InitTwiceOff /\ InitWatchOff /\ InitLoopOff

SubtitleStartTag == StartTagOf({"div"}, SubtitleLists)
SubtitleData == DataOf(SubtitleTexts, MaxJoinLen)
SubtitleEndTag == EndTagOf({"h4", "html"})

NextSubtitle == SubtitleStartTag \/ SubtitleData \/ SubtitleEndTag

SpecSubtitle == InitSubtitle /\ [][NextSubtitle]_vars

\* ------------------------------------------------------------------------
\* Specification: the pages of two dates that list the same programmes
\* ------------------------------------------------------------------------
DatesLists ==
  { <<>>,
    <<<<"content", StrContentA>>, <<"class", TimezoneTime>>>>,
    <<<<"content", StrContentB>>, <<"class", TimezoneTime>>>>,
    <<<<"data-pid", PidA>>>>,
    <<<<"data-pid", PidB>>>> }

DatesBegin == BeginPageOf(DateQueue)
DatesStartTag == StartTagOf(StartTags, DatesLists)
DatesData == DataOf({TextTime}, MaxSubtitleLen)
DatesEndTag == EndTagOf({"html"})

NextDates == DatesBegin \/ DatesStartTag \/ DatesData \/ DatesEndTag

SpecDates == Init /\ [][NextDates]_vars

\* ------------------------------------------------------------------------
\* Specification: the main loop, from mkDates to exit
\* ------------------------------------------------------------------------
Digits == <<"0", "1", "2", "3", "4", "5", "6", "7", "8", "9">>

\* str( n) for a natural number
RECURSIVE Str(_)
Str(n) == IF n < 10 THEN <<Digits[n + 1]>> ELSE Str(n \div 10) \o <<Digits[(n % 10) + 1]>>

\* s.zfill( 2)
Zfill2(s) == IF Len(s) < 2 THEN <<"0">> \o s ELSE s

\* datetime.date.today(), the day the pages of the template are about
Today == [year |-> 2017, month |-> 4, day |-> 6]

\* today - datetime.timedelta( days=n), for the days that stay in the month
DaysBefore(today, n) == [today EXCEPT !.day = today.day - n]

\* the queue of (year, month, day), for n from extra down to 0
mkDates(extra) ==
  [ k \in 1..(extra + 1) |->
      LET past == DaysBefore(Today, extra + 1 - k)
      IN  <<Str(past.year), Zfill2(Str(past.month)), Zfill2(Str(past.day))>> ]

\* date = year + '/' + month + '/' + day, of dates [0]
PageDate(q) == MkDate(q[1][1], q[1][2], q[1][3])

InitLoop ==
  /\ InitParser /\ InitTwiceOff /\ InitWatchOff
  /\ dates = mkDates(Extra)
  /\ pc = "top" /\ code = -1 /\ errs = <<>> /\ taken = <<>>

\* requests.get raises: errorMessage( 'network error'), exit( 3)
FetchRaises ==
  /\ pc = "top" /\ dates # <<>>
  /\ taken' = Append(taken, <<PageDate(dates), "raised">>)
  /\ errs' = Append(errs, "network error")
  /\ pc' = "done"
  /\ code' = 3
  /\ UNCHANGED <<dates, parser, out, history, raised, twice, watch>>

\* response == 200: parser.newDate( date), then parser.feed begins
FetchOk ==
  /\ pc = "top" /\ dates # <<>>
  /\ taken' = Append(taken, <<PageDate(dates), "200">>)
  /\ newDate(PageDate(dates))
  /\ pc' = "feeding"
  /\ UNCHANGED <<dates, code, errs, twice, watch>>

\* any other response: the message, then exit( 4) if no date remains
FetchRefused ==
  LET remaining == Len(dates) - 1
  IN  /\ pc = "top" /\ dates # <<>>
      /\ taken' = Append(taken, <<PageDate(dates), "404">>)
      /\ errs' = Append(errs, IF remaining # 0
                                THEN "couldn't get: url (continuing without it)"
                                ELSE "couldn't get: url")
      /\ IF remaining = 0
           THEN pc' = "done" /\ code' = 4 /\ dates' = dates
           ELSE pc' = "top" /\ code' = code /\ dates' = Tail(dates)
      /\ UNCHANGED <<parser, out, history, raised, twice, watch>>

LoopLists ==
  { <<>>,
    <<<<"content", StrContentA>>, <<"class", TimezoneTime>>>>,
    <<<<"content", StrContentB>>>> }
LoopStartTag == StartTagOf(StartTags, LoopLists)
LoopData == DataOf({TextNews}, MaxSubtitleLen)
LoopEndTag == EndTagOf({"html"})

\* parser.feed returns; del dates [0]
FeedReturns ==
  /\ pc = "feeding" /\ ~raised
  /\ dates' = Tail(dates)
  /\ pc' = "top"
  /\ UNCHANGED <<code, errs, taken, parser, out, history, raised, twice, watch>>

\* the queue is empty: exit( 0)
ExitLoop ==
  /\ pc = "top" /\ dates = <<>>
  /\ pc' = "done"
  /\ code' = 0
  /\ UNCHANGED <<dates, errs, taken, parser, out, history, raised, twice, watch>>

NextLoop ==
  \/ FetchRaises \/ FetchOk \/ FetchRefused
  \/ LoopStartTag \/ LoopData \/ LoopEndTag
  \/ FeedReturns \/ ExitLoop

SpecLoop == InitLoop /\ [][NextLoop]_vars

\* ------------------------------------------------------------------------
\* Properties
\* ------------------------------------------------------------------------
Last(s) == s[Len(s)]

\* this step prints a record
Emits == Len(out') > Len(out)

\* records printed for blocks of the page being fed
DocRecords == {i \in 1..Len(out) : out[i].page = expected /\ out[i].fresh}

\* the block in progress went through every stage and had its h4 closed
Completed ==
  /\ step >= 11
  /\ date # <<>> /\ time # <<>> /\ pid # <<>> /\ title # <<>>

\* C1: no two printed records carry the same id, and hadPid never loses an
\* entry, whatever newDate calls and token events occur.
C1_UniqueIds ==
  [][ /\ \A i, j \in 1..Len(out') : i # j => out'[i].pid # out'[j].pid
      /\ hadPid \subseteq hadPid' ]_vars

\* a later block carrying an id printed for an earlier page, with the date of
\* the page being fed, went through a root close and was not printed
C1_Witness ==
  /\ pid # <<>> /\ date = expected /\ flushedAt >= 0
  /\ \E i \in 1..Len(out) : out[i].pid = pid /\ out[i].block < blockNo /\ out[i].page # expected
  /\ \A i \in 1..Len(out) : out[i].block # blockNo

\* C2: every record is printed with the date newDate last set, and no token
\* event changes expected.
C2_EmittedDateIsExpected ==
  [][ /\ Emits => Last(out').date = expected /\ expected' = expected
      /\ (StartTag \/ Data \/ EndTag) => expected' = expected ]_vars

\* a record of this page was printed, and a block of this page with another
\* date and a fresh id went through a root close without being printed
C2_Witness ==
  /\ Len(out) > 0 /\ Last(out).page = expected /\ Last(out).date = expected
  /\ fresh /\ flushedAt >= 0
  /\ date # <<>> /\ date # expected /\ pid # <<>> /\ pid \notin hadPid

\* C3 (as claimed): a block with its id stored but no title yet (positions
\* 5 to 7) prints nothing when the next h3 arrives.
C3_IncompleteBlockDiscarded ==
  [][ (step \in 5..7 /\ \E attrs \in AttrLists : handle_starttag("h3", attrs))
        => out' = out ]_vars

\* C4 (as claimed): a root close that arrives while the block in progress is
\* at a position below 11 prints nothing.
C4_MalformedAtEndAbandoned ==
  [][ (step \in 1..10 /\ handle_endtag("html")) => out' = out ]_vars

\* C5 (as claimed): every record printed after newDate comes from a block
\* whose h3 arrived after that newDate.
C5_NewDateDiscardsPast == [][ Emits => fresh ]_vars

\* C6 (as claimed): at position 0 every token event other than an h3 open
\* tag leaves the position, the fields, hadPid and the output as they are.
C6_IdleInert ==
  [][ ( /\ step = 0
        /\ \/ \E attrs \in AttrLists : handle_starttag("div", attrs)
           \/ \E data \in Texts : handle_data(data)
           \/ \E tag \in EndTags : handle_endtag(tag) )
        => step' = 0 /\ UNCHANGED <<fields, hadPid, out>> ]_vars

\* C7 (as claimed): the second feed of a page, after newDate with the same
\* date, prints nothing.
C7_SecondFeedPrintsNothing == [][ pass = 2 => out' = out ]_vars

C9_RootCloseFlushes ==
  [][ handle_endtag("html") =>
        /\ step' = 0
        /\ (Completed /\ date = expected /\ pid \notin hadPid)
             => /\ Len(out') = Len(out) + 1
                /\ SubSeq(out', 1, Len(out)) = out
                /\ Last(out').pid = pid /\ Last(out').date = date ]_vars

\* the block in progress was completed when its first root close arrived, and
\* that close printed it
C9_Witness ==
  /\ step = 0 /\ fresh /\ flushedAt >= 11
  /\ date = expected /\ time # <<>> /\ pid # <<>> /\ title # <<>>
  /\ Len(out) > 0 /\ Last(out).block = blockNo /\ Last(out).pid = pid

\* C10: records are printed in the order of their h3 tags, one at a time, and
\* a block of the page is printed at the first h3 or root close after it
\* began or not at all.
C10_OrderPreserved ==
  [][ Emits =>
        /\ Len(out') = Len(out) + 1
        /\ \A i \in 1..Len(out) : out[i].block < Last(out').block
        /\ fresh => flushedAt = -1 ]_vars

\* two blocks of one page were printed
C10_Witness ==
  /\ Len(out) >= 2
  /\ out[Len(out) - 1].page = Last(out).page
  /\ out[Len(out) - 1].fresh /\ Last(out).fresh
  /\ out[Len(out) - 1].block < Last(out).block

\* C11: for every sequence of open tags (attributes without value included),
\* texts and close tags, no handler raises an error.
C11_NoHandlerRaises == ~raised

\* the printed line ends with the repeat marker
CarriesMark(l) ==
  Len(l) >= 4 /\ SubSeq(l, Len(l) - 3, Len(l)) = <<" ", "(", "R", ")">>

\* C12 as stated: a printed record carries the repeat marker iff an open tag
\* with the attribute value 'Repeat' occurred anywhere in its block, between
\* the block's h3 and its flush.
C12_RepeatAnywhere == [][Emits => (CarriesMark(line') <=> repSeen)]_vars

\* C12 amended: a printed record carries the repeat marker iff a 'Repeat'
\* attribute value was examined while the block was at position 11.
C12_RepeatAt11 == [][Emits => (CarriesMark(line') <=> rep11)]_vars

\* a record printed at the root close with the marker, for a block that met
\* 'Repeat' at position 11
C12_Witness ==
  /\ out # <<>> /\ Last(out).block = blockNo /\ step = 0
  /\ rep11 /\ CarriesMark(line)

\* C13: every printed line is '{date}-{time} {id} ' followed by '"{title}"'
\* when subtitle and repeat are both absent, '"{title} - {subtitle}"' when
\* only the subtitle is present, '"{title}" (R)' when only the repeat marker
\* is present and '"{title} - {subtitle}" (R)' when both are; exactly one of
\* the four cases applies to any record.
C13_FormattingMatrix ==
  [][ Emits =>
        LET hd == date \o <<"-">> \o time \o <<" ">> \o pid \o <<" ">>
            both == title \o <<" ", "-", " ">> \o subtitle
            q(x) == <<"\"">> \o x \o <<"\"">>
            mark == <<" ", "(", "R", ")">>
            noSub == subtitle = <<>>
            noRep == repeat = <<>>
        IN  /\ noSub /\ noRep => line' = hd \o q(title)
            /\ ~noSub /\ noRep => line' = hd \o q(both)
            /\ noSub /\ ~noRep => line' = hd \o q(title) \o mark
            /\ ~noSub /\ ~noRep => line' = hd \o q(both) \o mark
            /\ Cardinality({c \in { <<TRUE, TRUE>>, <<FALSE, TRUE>>,
                                     <<TRUE, FALSE>>, <<FALSE, FALSE>> } :
                               c = <<noSub, noRep>>}) = 1 ]_vars

\* a record with a subtitle and the repeat marker was printed
C13_Witness ==
  /\ out # <<>> /\ step = 0
  /\ subtitle # <<>> /\ repeat # <<>>
  /\ line = Line(date, time, pid, title, subtitle, repeat)

\* a text without its leading and trailing whitespace
Trimmed(x) ==
  LET inked == {i \in 1..Len(x) : x[i] \notin {" ", "\t", "\n", "\r"}}
  IN  IF inked = {} THEN <<>>
      ELSE SubSeq(x, CHOOSE i \in inked : \A j \in inked : i <= j,
                     CHOOSE i \in inked : \A j \in inked : i >= j)

\* the trimmed fragments in order, each followed by a space iff it ends in ','
RECURSIVE Joined(_)
Joined(fs) ==
  IF fs = <<>> THEN <<>>
  ELSE LET t == Trimmed(Last(fs))
       IN  Joined(SubSeq(fs, 1, Len(fs) - 1))
             \o t \o (IF t # <<>> /\ Last(t) = "," THEN <<" ">> ELSE <<>>)

\* C14: the subtitle of a block is the concatenation, in event order, of the
\* texts received at position 10, each trimmed and followed by one space iff
\* the trimmed text ends in ','; a text at position 10 leaves the position at
\* 10, and a text at any other position leaves the subtitle unchanged.
C14_SubtitleJoin ==
  [][ /\ subtitle' = Joined(frags')
      /\ \A data \in SubtitleTexts :
           handle_data(data) =>
             /\ step = 10 => step' = 10
             /\ step # 10 => subtitle' = subtitle ]_vars

\* 'Part One,' then 'Episode 2' gave 'Part One, Episode 2'
C14_Witness ==
  /\ frags = <<TextPartOne, TextEpisode2>>
  /\ subtitle = TextPartOne \o <<" ">> \o TextEpisode2
  /\ step = 10

\* 'Foo' then 'Bar' gave 'FooBar'
C14_WitnessFooBar ==
  /\ Len(frags) = 2
  /\ subtitle = <<"F", "o", "o", "B", "a", "r">>

\* C16: an event that is not the next one of the grammar, nor an h3 open tag
\* nor a root close, leaves the position alone; the close of an h4 moves the
\* position to 11 only from position 10, so position 11 or 12 is never held
\* by a block without a stored title, and position 12 is left only by an h3,
\* a root close or newDate.
C16_OnlyExpectedAdvances ==
  [][ /\ handle_endtag("h4") /\ step \notin {0, 10} => step' = step
      /\ fresh' /\ step' \in {11, 12} => title' # <<>>
      /\ step = 12 /\ step' # 12 =>
           \/ \E attrs \in AttrLists : handle_starttag("h3", attrs)
           \/ handle_endtag("html")
           \/ \E d \in Dates : newDate(d) ]_vars

\* the dates the content attributes of a tag can give
ContentDates(attrs) ==
  { SubDash(Slice10(attrs[i][2])) : i \in {j \in 1..Len(attrs) : attrs[j][1] = "content"} }

\* C17: an h3 open tag flushes the previous block iff the position is not 0,
\* then clears date, time, id, title, subtitle and repeat and sets position 1
\* before it examines its own attributes: after the tag the record holds
\* nothing but what the tag's own attributes gave.
C17_BoundaryResets ==
  [][ \A attrs \in {l \in AttrLists : blockNo' = blockNo + 1} :
        handle_starttag("h3", attrs) =>
          /\ step = 0 => out' = out /\ hadPid' = hadPid
          /\ step # 0 /\ date = expected /\ pid \notin hadPid =>
               /\ Emits
               /\ Last(out').pid = pid /\ Last(out').date = date
               /\ Last(out').block = blockNo
          /\ time' = <<>> /\ pid' = <<>> /\ title' = <<>>
          /\ subtitle' = <<>> /\ repeat' = <<>>
          /\ date' \in {<<>>} \cup ContentDates(attrs)
          /\ ContentDates(attrs) = {} => date' = <<>> /\ step' = 1
          /\ step' \in 1..3 ]_vars

\* an h3 printed the block before it, which had an id, and left an empty record
C17_Witness ==
  /\ out # <<>> /\ Last(out).block = blockNo - 1 /\ Last(out).fresh
  /\ Last(out).pid # <<>> /\ Last(out).page = expected
  /\ flushedAt = -1 /\ step = 1
  /\ date = <<>> /\ time = <<>> /\ pid = <<>> /\ title = <<>>

\* C18: hadPid holds exactly the ids of the printed records; an id enters it
\* only in the step that prints its record, so a block dropped for its date
\* or as a duplicate adds nothing, and a block whose id was dropped for its
\* date is printed when it is flushed in a page with its date.
C18_HadPidIsPrintedIds ==
  [][ /\ hadPid' = {out'[i].pid : i \in 1..Len(out')}
      /\ hadPid' # hadPid => Emits /\ hadPid' = hadPid \cup {Last(out').pid}
      /\ ~Emits => hadPid' = hadPid
      /\ /\ handle_endtag("html")
         /\ date = expected /\ pid \notin hadPid
         /\ \E d \in dropped : d.pid = pid /\ d.page # expected
         => Emits /\ Last(out').pid = pid ]_vars

\* a block of the second page was printed with an id that a block of the
\* first page, dropped for its date, had carried
C18_Witness ==
  \E i \in 1..Len(out) :
    /\ [pid |-> out[i].pid, page |-> DateA] \in dropped /\ out[i].pid # <<>>
    /\ out[i].fresh /\ out[i].block = MaxBlocks
    /\ out[i].page = DateB /\ out[i].date = DateB

\* this step is a fetch that failed: another response than 200, or an exception
FetchFailed == Len(taken') > Len(taken) /\ Last(taken')[2] # "200"

\* C15: a failed fetch (non-200 response or network failure) with more dates
\* remaining writes a diagnostic, feeds nothing to the extractor and goes on
\* with the remaining dates; the run ends unsuccessfully only when the date
\* whose fetch failed is the last one.
C15_FailureSkipsDate ==
  [][ FetchFailed =>
        /\ Len(errs') = Len(errs) + 1
        /\ UNCHANGED <<parser, out>>
        /\ IF Len(dates) > 1
             THEN pc' = "top" /\ code' = -1 /\ dates' = Tail(dates)
             ELSE pc' = "done" /\ code' > 0 ]_vars

\* the dates of the queue mkDates built, as the loop writes them
QueueDates == [i \in 1..(Extra + 1) |-> PageDate(<<mkDates(Extra)[i]>>)]

\* a is an earlier date than b, both written YYYY/MM/DD
Before(a, b) ==
  LET val(c) == IF c = "/" THEN -1 ELSE CHOOSE v \in 0..9 : Digits[v + 1] = c
  IN  \E i \in 1..Len(a) :
        /\ \A j \in 1..(i - 1) : a[j] = b[j]
        /\ val(a[i]) < val(b[i])

\* the dates are fetched in queue order, oldest first and none twice; the
\* extractor changes only during a feed that follows newDate with the date
\* of a page fetched with response 200; an empty queue ends the run
ProtocolStep ==
  /\ \A i \in 1..Len(taken') : taken'[i][1] = QueueDates[i]
  /\ \A i, j \in 1..(Extra + 1) : i < j => Before(QueueDates[i], QueueDates[j])
  /\ pc = "feeding" =>
       expected = PageDate(dates) /\ Last(taken) = <<expected, "200">>
  /\ parser' # parser =>
       \/ pc = "feeding" /\ pc' = "feeding"
       \/ /\ pc = "top" /\ pc' = "feeding"
          /\ date' = date /\ hadPid' = hadPid
          /\ expected' = PageDate(dates)
          /\ taken' = Append(taken, <<expected', "200">>)
  /\ pc = "top" /\ dates = <<>> => pc' = "done" /\ code' = 0

\* C19: the loop takes the dates of the queue oldest to newest, each exactly
\* once; every feed directly follows newDate with the date of its page, which
\* was fetched with response 200; the loop ends once the queue is empty.
C19_LoopProtocol ==
  [][ /\ ProtocolStep
      /\ pc' = "done" => Len(taken') = Extra + 1 ]_vars

====
